---- MODULE Spec2Model ----
(***************************************************************************)
(* HireGenius: the candidate/job match scorer of the applications route    *)
(* (src/src/app/api/applications/route.ts, calculateMatchScore) over the   *)
(* Prisma schema's JobSeekerProfile, JobPosting, Skill, Experience and     *)
(* Education tables.                                                       *)
(*                                                                         *)
(* Numbers.  JavaScript numbers are modelled as exact fractions <<n, d>>   *)
(* with d > 0.  Timestamps are kept in whole days, so that the code's      *)
(* (end - start) ms / (1000*60*60*24*365) is (end - start) days / 365.     *)
(* Strings are sequences of ASCII codes, so that toLowerCase is computed.  *)
(***************************************************************************)
EXTENDS Integers, Sequences, FiniteSets, TLC

(* ------------------------------ bounds --------------------------------- *)

\* rows of the Skill table
NumSkills == 8
\* most required skills of the posting when the candidate's skills are drawn
\* from the whole Skill table
MaxReq == 1
\* most Experience rows of the profile
MaxExp == 2
\* most Education rows of the profile
MaxEdu == 2

\* the Skill rows ("A", "a", "x", "B") the profile and the posting draw from
\* when the experiences and educations are drawn too
FewSkillIds == {1, 2, 3, 4}
\* of these, the rows ("A", "x") the candidate's skills are drawn from
FewCandidateIds == {1, 3}
\* timestamps (days since the epoch) an Experience row can carry
StartDates == {0, 9125}
EndDates == {73}
\* the times (days since the epoch) at which a call can run: what new Date()
\* returns during the call
Clock == {9125, 9490}

\* the day the job posting j1 was created: the earliest time of the clock
CreatedAt == CHOOSE t \in Clock : \A u \in Clock : t <= u

\* the pages of a PDF document
MaxPages == 2

\* POST handlers that may be suspended at once between their duplicate check
\* and their create
MaxInFlight == 2

\* the ids of the Application rows: the table has room for two rows
AppIds == {1, 2}

(* ----------------------------- constants ------------------------------- *)

\* Experience.endDate is nullable (DateTime?)
NULL == -1
DaysPerYear == 365
BaseScore == 50
MaxSkillPoints == 30
MaxAnySkillPoints == 15
MaxExperiencePoints == 15
EducationPoints == 5
MaxScore == 100
NotFoundScore == 0
ErrorScore == 50

\* the one job seeker profile and the one job posting of the database
ProfileId == "p1"
JobId == "j1"
ProfileIds == {ProfileId, "p0"}
JobIds == {JobId, "j0"}

\* the users: u1 is a job seeker with the profile p1, u2 the recruiter who
\* posted j1, u3 another recruiter, u4 a job seeker whose profile was never
\* created (createUser makes the user and the profile in two steps)
Users == {"u1", "u2", "u3", "u4"}
NoSession == "none"
Sessions == Users \cup {NoSession}

\* the id of no Application row
NoId == 0

VARIABLES
    profileSkills,   \* _JobSeekerProfileToSkill: ids of the profile's skills
    jobSkills,       \* _JobPostingToSkill: ids of the posting's required skills
    experiences,     \* Experience rows of the profile: [startDate, endDate]
    educations,      \* Education rows of the profile (row ids)
    call,            \* the last calculateMatchScore call: its locals and result
    nulled,          \* the collection the last call received as null, or "none"
    applications,    \* the Application table: id -> row
    inflight,        \* POST handlers between the duplicate check and the create
    resp,            \* the last response sent by a handler
    job,             \* the JobPosting row j1: [title, isActive, updatedAt]
    analysis,        \* the last call of analyzeResume: its input and its result
    extraction       \* the last call of PdfReader.extractText: its input and its result

scoreVars == <<profileSkills, jobSkills, experiences, educations, call, nulled>>

appVars == <<applications, inflight, resp>>

jobVars == <<job>>

analysisVars == <<analysis>>

extractionVars == <<extraction>>

vars == <<scoreVars, appVars, jobVars, analysisVars, extractionVars>>

(* ------------------------------ strings -------------------------------- *)

\* Skill.name of row id: rows 1,2,3 = "A","a","x"; rows 4,5,6 = "B","b","y"; ...
\* (the schema puts no unique index on Skill.name, and the routes that create
\* skills look names up case-sensitively, so case variants coexist)
SkillName(id) ==
    LET k == (id - 1) \div 3
        r == (id - 1) % 3
    IN  IF r = 0 THEN <<65 + k>> ELSE IF r = 1 THEN <<97 + k>> ELSE <<120 + k>>

ToLowerCaseChar(c) == IF c >= 65 /\ c <= 90 THEN c + 32 ELSE c

\* String.prototype.toLowerCase
ToLowerCase(s) == [i \in 1..Len(s) |-> ToLowerCaseChar(s[i])]

(* ----------------------------- fractions ------------------------------- *)

RECURSIVE Gcd(_, _)
Gcd(a, b) == IF b = 0 THEN a ELSE Gcd(b, a % b)

Abs(x) == IF x < 0 THEN -x ELSE x

\* the number n/d, d > 0, in lowest terms
Frac(n, d) ==
    LET g == Gcd(Abs(n), d) IN <<n \div g, d \div g>>

Whole(n) == <<n, 1>>

\* a + b
Plus(a, b) == Frac(a[1] * b[2] + b[1] * a[2], a[2] * b[2])

\* a * k, k an integer
Times(a, k) == Frac(a[1] * k, a[2])

Leq(a, b) == a[1] * b[2] <= b[1] * a[2]

\* Math.min
MathMin(a, b) == IF Leq(a, b) THEN a ELSE b

\* Math.floor in the place of Math.round
MathRound_Floor(a) == a[1] \div a[2]

\* Math.round: the integer nearest to a, ties towards +Infinity
MathRound(a) == (2 * a[1] + a[2]) \div (2 * a[2])

IntMin(x, y) == IF x <= y THEN x ELSE y

(* --------------------------- the database ------------------------------ *)

\* the rows of a relation as the list a query returns, by ascending id
RECURSIVE SetToList(_)
SetToList(S) ==
    IF S = {} THEN <<>>
    ELSE LET m == CHOOSE x \in S : \A y \in S : x <= y
         IN  <<m>> \o SetToList(S \ {m})

SkillRows(ids) ==
    LET l == SetToList(ids) IN [i \in 1..Len(l) |-> [id |-> l[i], name |-> SkillName(l[i])]]

\* prisma.jobSeekerProfile.findUnique({where: {id}, include: {skills, experiences, educations}})
FindProfile(id) ==
    IF id = ProfileId
    THEN [found |-> TRUE, skills |-> SkillRows(profileSkills),
          experiences |-> experiences, educations |-> educations]
    ELSE [found |-> FALSE, skills |-> <<>>, experiences |-> <<>>, educations |-> <<>>]

\* prisma.jobPosting.findUnique({where: {id}, include: {requiredSkills}})
FindJobPosting(id) ==
    IF id = JobId
    THEN [found |-> TRUE, requiredSkills |-> SkillRows(jobSkills)]
    ELSE [found |-> FALSE, requiredSkills |-> <<>>]

(* ------------------------ calculateMatchScore -------------------------- *)

\* skills.map(skill => skill.name): the names as they are stored
LowerNames_AsStored(rows) == [i \in 1..Len(rows) |-> rows[i].name]

\* skills.map(skill => skill.name.toLowerCase())
LowerNames(rows) == [i \in 1..Len(rows) |-> ToLowerCase(rows[i].name)]

\* Array.prototype.includes
Includes(list, x) == \E i \in 1..Len(list) : list[i] = x

\* the filter run over the required skills instead of the candidate's
MatchedSkills_RequiredSide(candidateSkills, requiredSkills) ==
    SelectSeq(requiredSkills, LAMBDA skill : Includes(candidateSkills, skill))

\* candidateSkills.filter(skill => requiredSkills.includes(skill))
MatchedSkills(candidateSkills, requiredSkills) ==
    SelectSeq(candidateSkills, LAMBDA skill : Includes(requiredSkills, skill))

\* the "any skills" points given whenever nothing matched
SkillPoints_AnyWhenNoneMatched(candidateSkills, requiredSkills) ==
    LET matchedSkills == SelectSeq(candidateSkills, LAMBDA skill : Includes(requiredSkills, skill))
    IN  IF Len(matchedSkills) > 0
        THEN MathMin(Frac(Len(matchedSkills) * 30, Len(requiredSkills)), <<30, 1>>)
        ELSE MathMin(<<Len(candidateSkills) * 2, 1>>, <<15, 1>>)

\* the "any skills" points capped like the matched-skill points
SkillPoints_AnyCappedAt30(candidateSkills, requiredSkills) ==
    LET matchedSkills == SelectSeq(candidateSkills, LAMBDA skill : Includes(requiredSkills, skill))
    IN  IF Len(requiredSkills) > 0
        THEN MathMin(Frac(Len(matchedSkills) * 30, Len(requiredSkills)), <<30, 1>>)
        ELSE MathMin(<<Len(candidateSkills) * 2, 1>>, <<30, 1>>)

\* the matched skills counted as a share of the candidate's skills
SkillPoints_ShareOfCandidate(candidateSkills, requiredSkills) ==
    IF Len(requiredSkills) > 0
    THEN LET matchedSkills == MatchedSkills(candidateSkills, requiredSkills)
         IN  IF Len(candidateSkills) = 0 THEN Whole(0)
             ELSE MathMin(Frac(Len(matchedSkills) * 30, Len(candidateSkills)),
                          Whole(MaxSkillPoints))
    ELSE MathMin(Whole(Len(candidateSkills) * 2), Whole(MaxAnySkillPoints))

\* the points the skills add to the score
SkillPoints(candidateSkills, requiredSkills) ==
    IF Len(requiredSkills) > 0
    THEN LET matchedSkills == MatchedSkills(candidateSkills, requiredSkills)
             skillMatchPercentage ==
                 Times(Frac(Len(matchedSkills), Len(requiredSkills)), 100)
         IN  MathMin(Frac(skillMatchPercentage[1] * 3, skillMatchPercentage[2] * 10),
                     Whole(MaxSkillPoints))
    ELSE MathMin(Whole(Len(candidateSkills) * 2), Whole(MaxAnySkillPoints))

\* the current time taken for every interval
EndDate_AlwaysNow(exp, clock) == clock

\* new Date(exp.endDate) without the null check: new Date(null) is the epoch
EndDate_NoNullCheck(exp, clock) == IF exp.endDate # NULL THEN exp.endDate ELSE 0

\* exp.endDate ? new Date(exp.endDate) : new Date()
EndDate(exp, clock) == IF exp.endDate # NULL THEN exp.endDate ELSE clock

\* the years of one Experience row
Years(exp, clock) == Frac(EndDate(exp, clock) - exp.startDate, DaysPerYear)

\* experiences.reduce((total, exp) => total + years, 0)
RECURSIVE ExperienceYears(_, _)
ExperienceYears(exps, clock) ==
    IF exps = <<>> THEN Whole(0)
    ELSE Plus(ExperienceYears(SubSeq(exps, 1, Len(exps) - 1), clock),
              Years(exps[Len(exps)], clock))

\* the points the experiences add to the score
ExperiencePoints(exps, clock) ==
    MathMin(Times(ExperienceYears(exps, clock), 3), Whole(MaxExperiencePoints))

\* if (jobSeekerProfile.educations): an array is always truthy
EducationBonus_Truthy(edus) == <<5, 1>>

\* five points for each education entry
EducationBonus_PerEntry(edus) == <<5 * Len(edus), 1>>

\* the points the educations add to the score
EducationBonus(edus) == IF Len(edus) > 0 THEN Whole(EducationPoints) ELSE Whole(0)

\* Math.min(Math.round(score), 100)
FinalScore(score) == IntMin(MathRound(score), MaxScore)

NoPoints == Whole(0)

\* no call of calculateMatchScore has returned yet
NoCall == [path |-> "none", at |-> 0, skill |-> NoPoints, experience |-> NoPoints,
           education |-> NoPoints, score |-> NoPoints, ret |-> 0]

\* a call whose catch block returned the default score
ErrorCall == [NoCall EXCEPT !.path = "error", !.ret = ErrorScore]

\* the body of calculateMatchScore from "let score = 50" to the return, on the
\* records the two queries returned, run at time clock
ScoreRecords(jobSeekerProfile, jobPosting, clock) ==
    LET candidateSkills == LowerNames(jobSeekerProfile.skills)
        requiredSkills == LowerNames(jobPosting.requiredSkills)
        skill == SkillPoints(candidateSkills, requiredSkills)
        experience == ExperiencePoints(jobSeekerProfile.experiences, clock)
        education == EducationBonus(jobSeekerProfile.educations)
        score == Plus(Plus(Plus(Whole(BaseScore), skill), experience), education)
    IN  [path |-> "scored", at |-> clock, skill |-> skill,
         experience |-> experience, education |-> education,
         score |-> score, ret |-> FinalScore(score)]

\* the locals and the result of calculateMatchScore(jobSeekerProfileId, jobPostingId)
\* run at time clock; dbOk is false when a Prisma query rejects
MatchScoreCall(jobSeekerProfileId, jobPostingId, clock, dbOk) ==
    LET jobSeekerProfile == FindProfile(jobSeekerProfileId)
        jobPosting == FindJobPosting(jobPostingId)
    IN  IF ~dbOk
        THEN ErrorCall
        ELSE IF ~jobSeekerProfile.found \/ ~jobPosting.found
        THEN [NoCall EXCEPT !.path = "notfound", !.ret = NotFoundScore]
        ELSE ScoreRecords(jobSeekerProfile, jobPosting, clock)

\* the collections calculateMatchScore reads from the two records
Collections == {"skills", "experiences", "educations", "requiredSkills"}

\* calculateMatchScore on records of which the collection nullField is null:
\* null.map, null.reduce and null.length throw a TypeError, which the catch
\* block turns into the default score
MatchScoreCallWithNull(nullField, clock) ==
    IF nullField \in Collections
    THEN ErrorCall
    ELSE MatchScoreCall(ProfileId, JobId, clock, TRUE)

(* --------------------------- applications ------------------------------ *)

\* session.user.role
Role(user) == IF user \in {"u1", "u4"} THEN "JOBSEEKER" ELSE "RECRUITER"

\* prisma.jobSeekerProfile.findUnique({where: {userId}})
JobSeekerProfileOf(user) ==
    IF user = "u1" THEN [found |-> TRUE, id |-> ProfileId]
    ELSE [found |-> FALSE, id |-> ""]

\* application.jobSeekerProfile.user: the user a profile belongs to
UserOfProfile(jobSeekerProfileId) == IF jobSeekerProfileId = ProfileId THEN "u1" ELSE ""

\* application.jobPosting.recruiterProfile.user: the user who posted a job
RecruiterOfJob(jobPostingId) == IF jobPostingId = JobId THEN "u2" ELSE ""

\* prisma.jobPosting.findMany({where: {recruiterProfileId}}): a recruiter's postings
JobPostingsOf(user) == {jobPostingId \in JobIds : RecruiterOfJob(jobPostingId) = user}

\* prisma.jobPosting.findUnique({where: {id}}) finds a row
JobPostingExists(jobPostingId) == jobPostingId = JobId

\* no row under an id of the Application table
NoApplication == [exists |-> FALSE, jobPostingId |-> "", jobSeekerProfileId |-> "",
                  status |-> "", matchScore |-> 0]

\* the data of prisma.application.create, without the match score
ApplicationRow_NoScore(jobPostingId, jobSeekerProfileId, matchScore) ==
    [exists |-> TRUE, jobPostingId |-> jobPostingId,
     jobSeekerProfileId |-> jobSeekerProfileId, status |-> "Applied", matchScore |-> 0]

\* the data of prisma.application.create
ApplicationRow(jobPostingId, jobSeekerProfileId, matchScore) ==
    [exists |-> TRUE, jobPostingId |-> jobPostingId,
     jobSeekerProfileId |-> jobSeekerProfileId, status |-> "Applied",
     matchScore |-> matchScore]

\* prisma.application.findUnique({where: {id}})
FindApplication(id) == IF id \in AppIds THEN applications[id] ELSE NoApplication

\* prisma.application.findFirst({where: {jobPostingId, jobSeekerProfileId}}): the
\* rows the query can return
ExistingApplications(jobPostingId, jobSeekerProfileId) ==
    {id \in AppIds : /\ applications[id].exists
                     /\ applications[id].jobPostingId = jobPostingId
                     /\ applications[id].jobSeekerProfileId = jobSeekerProfileId}

\* the id the database gives the next row
FreeId == CHOOSE id \in AppIds : ~applications[id].exists /\
              \A other \in AppIds : ~applications[other].exists => id <= other

\* NextResponse.json({error}, {status}); http 0 stands for no response yet
Reply(http, error) == [http |-> http, error |-> error]

\* the bodies of a POST: applicationSchema wants a string jobPostingId
PostBodies == {[valid |-> TRUE, jobPostingId |-> jobPostingId] : jobPostingId \in JobIds}
                  \cup {[valid |-> FALSE, jobPostingId |-> ""]}

\* POST without the check of the session's role
PostEarlyReturn_NoRoleCheck(user, body) ==
    IF user = NoSession
    THEN Reply(401, "Unauthorized")
    ELSE IF ~JobSeekerProfileOf(user).found
    THEN Reply(404, "Job seeker profile not found")
    ELSE IF ~body.valid
    THEN Reply(400, "ZodError")
    ELSE IF ~JobPostingExists(body.jobPostingId)
    THEN Reply(404, "Job posting not found")
    ELSE IF ExistingApplications(body.jobPostingId, JobSeekerProfileOf(user).id) # {}
    THEN Reply(400, "You have already applied for this job")
    ELSE Reply(0, "")

\* POST from getServerSession to the duplicate check: the first early return
\* taken, or http 0 when the handler goes on to calculateMatchScore
PostEarlyReturn(user, body) ==
    IF user = NoSession
    THEN Reply(401, "Unauthorized")
    ELSE IF Role(user) # "JOBSEEKER"
    THEN Reply(403, "Only job seekers can apply for jobs")
    ELSE IF ~JobSeekerProfileOf(user).found
    THEN Reply(404, "Job seeker profile not found")
    ELSE IF ~body.valid
    THEN Reply(400, "ZodError")
    ELSE IF ~JobPostingExists(body.jobPostingId)
    THEN Reply(404, "Job posting not found")
    ELSE IF ExistingApplications(body.jobPostingId, JobSeekerProfileOf(user).id) # {}
    THEN Reply(400, "You have already applied for this job")
    ELSE Reply(0, "")

\* the values PATCH accepts in body.status
PatchStatuses == {"PENDING", "APPROVED", "REJECTED", "WITHDRAWN", "SELECTED_FOR_INTERVIEW"}

\* the values a recruiter may set
RecruiterStatuses == {"APPROVED", "REJECTED", "SELECTED_FOR_INTERVIEW"}

\* the bodies of a PATCH: an accepted value, another string, or no status
PatchBodies == PatchStatuses \cup {"Applied", ""}

\* the permission check of PATCH without the comparison of the e-mails
MayUpdate_AnyCaller(user, application, status) ==
    \/ Role(user) = "RECRUITER" /\ status \in RecruiterStatuses
    \/ Role(user) = "JOBSEEKER" /\ status = "WITHDRAWN"

\* the permission check of PATCH with PENDING among the recruiter's values
MayUpdate_RecruiterPending(user, application, status) ==
    \/ /\ Role(user) = "RECRUITER"
       /\ RecruiterOfJob(application.jobPostingId) = user
       /\ status \in RecruiterStatuses \cup {"PENDING"}
    \/ /\ Role(user) = "JOBSEEKER"
       /\ UserOfProfile(application.jobSeekerProfileId) = user
       /\ status = "WITHDRAWN"

\* the permission check of PATCH; a user stands for their e-mail, which is unique
MayUpdate(user, application, status) ==
    \/ /\ Role(user) = "RECRUITER"
       /\ RecruiterOfJob(application.jobPostingId) = user
       /\ status \in RecruiterStatuses
    \/ /\ Role(user) = "JOBSEEKER"
       /\ UserOfProfile(application.jobSeekerProfileId) = user
       /\ status = "WITHDRAWN"

\* PATCH: the response to a request for the application id with body.status,
\* when no Prisma call rejects
PatchReply(user, id, status) ==
    IF user = NoSession
    THEN Reply(401, "Unauthorized")
    ELSE IF status = "" \/ status \notin PatchStatuses
    THEN Reply(400, "Invalid status value")
    ELSE IF ~FindApplication(id).exists
    THEN Reply(404, "Application not found")
    ELSE IF MayUpdate(user, FindApplication(id), status)
    THEN Reply(200, "")
    ELSE Reply(403, "Unauthorized action")

\* DELETE: the response to a request for the application id, when no Prisma
\* call rejects
DeleteReply(user, id) ==
    IF user = NoSession
    THEN Reply(401, "Unauthorized")
    ELSE IF ~FindApplication(id).exists
    THEN Reply(404, "Application not found")
    ELSE IF Role(user) = "JOBSEEKER" /\
            UserOfProfile(FindApplication(id).jobSeekerProfileId) = user
    THEN Reply(200, "")
    ELSE Reply(403, "Unauthorized action")

\* GET without query parameters: the where clause of findMany for the session
\* user (page 1 holds every row, the table being smaller than the limit of 10)
Visible(user) ==
    IF Role(user) = "JOBSEEKER"
    THEN {id \in AppIds : /\ applications[id].exists
                          /\ applications[id].jobSeekerProfileId = JobSeekerProfileOf(user).id}
    ELSE {id \in AppIds : /\ applications[id].exists
                          /\ applications[id].jobPostingId \in JobPostingsOf(user)}

\* GET: the response
GetReply(user) ==
    IF user = NoSession
    THEN Reply(401, "Unauthorized")
    ELSE IF Role(user) = "JOBSEEKER" /\ ~JobSeekerProfileOf(user).found
    THEN Reply(404, "Job seeker profile not found")
    ELSE Reply(200, "")

\* the rows of a response that lists none
NoRows == [id \in AppIds |-> NoApplication]

\* no handler has answered yet; seq is the parity of the number of responses
NoResp == [seq |-> 0, op |-> "none", user |-> NoSession, jobPostingId |-> "", id |-> NoId,
           status |-> "", http |-> 0, error |-> "", rows |-> NoRows]

\* the response a handler sends for a request
Respond(op, user, jobPostingId, id, status, reply, rows) ==
    [seq |-> 1 - resp.seq, op |-> op, user |-> user, jobPostingId |-> jobPostingId,
     id |-> id, status |-> status, http |-> reply.http, error |-> reply.error,
     rows |-> rows]

(* ---------------------------- job postings ------------------------------ *)

\* prisma.jobPosting.findUnique({where: {id}, include: {recruiterProfile}}):
\* the userId of the recruiter profile the posting belongs to
OwnerOfJob(jobPostingId) == RecruiterOfJob(jobPostingId)

\* PATCH and DELETE of a job posting without the ownership check
JobEarlyReturn_NoOwnerCheck(user, jobPostingId, verb) ==
    IF user = NoSession
    THEN Reply(401, "Unauthorized")
    ELSE IF ~JobPostingExists(jobPostingId)
    THEN Reply(404, "Job posting not found")
    ELSE Reply(0, "")

\* PATCH and DELETE of a job posting from getServerSession to the ownership
\* check: the first early return taken, or http 0 when the handler goes on
JobEarlyReturn(user, jobPostingId, verb) ==
    IF user = NoSession
    THEN Reply(401, "Unauthorized")
    ELSE IF ~JobPostingExists(jobPostingId)
    THEN Reply(404, "Job posting not found")
    ELSE IF OwnerOfJob(jobPostingId) # user
    THEN Reply(403, IF verb = "update"
                    THEN "You do not have permission to update this job posting"
                    ELSE "You do not have permission to delete this job posting")
    ELSE Reply(0, "")

\* a body of PATCH: an optional field is a list with no or one value
JobBody(valid, title, isActive, skills) ==
    [valid |-> valid, title |-> title, isActive |-> isActive, skills |-> skills]

\* the bodies of a PATCH of a job posting: one that jobUpdateSchema refuses,
\* the empty object, one field each, and several fields at once
JobPatchBodies ==
    {JobBody(FALSE, <<>>, <<>>, {}),
     JobBody(TRUE, <<>>, <<>>, {}),
     JobBody(TRUE, <<"t2">>, <<>>, {}),
     JobBody(TRUE, <<>>, <<FALSE>>, {}),
     JobBody(TRUE, <<>>, <<TRUE>>, {}),
     JobBody(TRUE, <<>>, <<>>, {4}),
     JobBody(TRUE, <<"t1">>, <<FALSE>>, {2})}

\* the row after prisma.jobPosting.update with the data of PATCH at time clock
UpdatedJob(row, updateData, clock) ==
    [title |-> IF updateData.title # <<>> THEN updateData.title[1] ELSE row.title,
     isActive |-> IF updateData.isActive # <<>> THEN updateData.isActive[1]
                  ELSE row.isActive,
     updatedAt |-> clock]

\* the row after the update of DELETE if it flipped isActive
DeletedJob_Toggle(row, clock) ==
    [row EXCEPT !.isActive = ~row.isActive, !.updatedAt = clock]

\* the row after prisma.jobPosting.update({data: {isActive: false}}) at time
\* clock: updatedAt is @updatedAt, which every update sets
DeletedJob(row, clock) ==
    [row EXCEPT !.isActive = FALSE, !.updatedAt = clock]

\* the times a write to the posting can happen: not before its last write
Later == {clock \in Clock : clock >= job.updatedAt}

(* ---------------------------- analyzeResume ----------------------------- *)

\* resumeText.trim().length < 50 is too short
MinTextLength == 50

\* makeRequestWithRetries: maxRetries = 3
MaxRetries == 3

\* commonSkills of extractSkills, of which the model keeps 'Java', 'C#', 'C++'
\* and 'SQL' in their order, as character codes
CommonSkills == << <<74, 97, 118, 97>>, <<67, 35>>, <<67, 43, 43>>, <<83, 81, 76>> >>

\* the quantifiers * and + of a regular expression, and ? which after a
\* quantifier makes it lazy
Star == 42
PlusSign == 43
QuestionMark == 63

\* new RegExp(source) throws SyntaxError "Nothing to repeat" when a quantifier
\* follows a quantifier
NothingToRepeat(source) ==
    \E i \in 2..Len(source) :
        /\ source[i] \in {Star, PlusSign}
        /\ source[i - 1] \in {Star, PlusSign, QuestionMark}

\* extractSkills(text): commonSkills.filter(skill => new RegExp(`\\b${skill}\\b`,
\* 'i').test(text)) builds a pattern from every skill name, unescaped; a text
\* mentions the skills whose index it holds
ExtractSkills(text) ==
    IF \E i \in DOMAIN CommonSkills : NothingToRepeat(CommonSkills[i])
    THEN [threw |-> TRUE, skills |-> {}]
    ELSE [threw |-> FALSE, skills |-> {CommonSkills[i] : i \in text.mentions}]

\* calculateResumeScore(text), for a text of at most 4000 characters that
\* holds none of the keywords the function looks for
CalculateResumeScore(text) == IF text.length > 2000 THEN 60 ELSE 50

\* the texts: their length after trimming and the common skills they mention
TextLengths == {0, 49, 50, 2001}
Texts == [length : TextLengths, mentions : SUBSET {1, 4}]

\* what the Gemini API answers to one attempt: nothing usable, or a result
GeminiFailure == [ok |-> FALSE, skills |-> {}, score |-> 0]
GeminiAnswers ==
    {GeminiFailure,
     [ok |-> TRUE, skills |-> {}, score |-> 0],
     [ok |-> TRUE, skills |-> {CommonSkills[1]}, score |-> 85]}

\* makeRequestWithRetries: the attempts made and the first usable answer
RECURSIVE MakeRequestWithRetries(_, _)
MakeRequestWithRetries(answers, attempt) ==
    IF attempt > MaxRetries
    THEN [ok |-> FALSE, attempts |-> MaxRetries, result |-> GeminiFailure]
    ELSE IF answers[attempt].ok
    THEN [ok |-> TRUE, attempts |-> attempt, result |-> answers[attempt]]
    ELSE MakeRequestWithRetries(answers, attempt + 1)

\* createFallbackResponse(errorMessage)
CreateFallbackResponse(errorMessage) ==
    [success |-> FALSE, summary |-> errorMessage, skills |-> {}, score |-> 0]

\* no call of analyzeResume has returned yet
NoAnalysis == [path |-> "none", text |-> [length |-> 0, mentions |-> {}],
               answers |-> <<>>, attempts |-> 0,
               response |-> CreateFallbackResponse("")]

\* analyzeResume(resumeText) when the Gemini API gives answers[i] to attempt i:
\* the path taken, the attempts made and the response returned
AnalyzeResumeCall(text, answers) ==
    LET gemini == MakeRequestWithRetries(answers, 1)
        skills == ExtractSkills(text)
        called(path, attempts, response) ==
            [path |-> path, text |-> text, answers |-> answers,
             attempts |-> attempts, response |-> response]
    IN  IF text.length < MinTextLength
        THEN called("short", 0,
                    CreateFallbackResponse("Resume text is too short or empty"))
        ELSE IF gemini.ok
        THEN called("gemini", gemini.attempts,
                    [success |-> TRUE, summary |-> "gemini",
                     skills |-> gemini.result.skills, score |-> gemini.result.score])
        ELSE IF skills.threw
        THEN called("caught", gemini.attempts,
                    CreateFallbackResponse("Failed to analyze resume"))
        ELSE called("basic", gemini.attempts,
                    [success |-> TRUE, summary |-> "basic", skills |-> skills.skills,
                     score |-> CalculateResumeScore(text)])

(* ------------------------ PdfReader.extractText ------------------------- *)

\* a text is the list of its character codes; these are the codes of the
\* characters String.prototype.trim removes that occur in the model
Space == 32
LineFeed == 10
WhiteSpace == {Space, LineFeed}

\* s.trim()
RECURSIVE Trim(_)
Trim(s) ==
    IF s = <<>> THEN s
    ELSE IF Head(s) \in WhiteSpace THEN Trim(Tail(s))
    ELSE IF s[Len(s)] \in WhiteSpace THEN Trim(SubSeq(s, 1, Len(s) - 1))
    ELSE s

\* !fullText, without the trim
IsBlank_Empty(s) == s = <<>>

\* !s.trim()
IsBlank(s) == Trim(s) = <<>>

\* getFallbackText(): the hard-coded resume, of which the model keeps "\nJohn"
FallbackText == <<10, 74, 111, 104, 110>>

\* what a page gives: getPage or getTextContent throws, or the joined items
\* are "", " " or "a"
PageOutcomes ==
    {[ok |-> FALSE, text |-> <<>>],
     [ok |-> TRUE, text |-> <<>>],
     [ok |-> TRUE, text |-> <<Space>>],
     [ok |-> TRUE, text |-> <<97>>]}

\* what PDF.js gives: initPdfJs or the loading task throws, or a document
PdfJsOutcomes ==
    {[ok |-> FALSE, pages |-> <<>>]} \cup
    {[ok |-> TRUE, pages |-> pages] :
         pages \in UNION {[1..n -> PageOutcomes] : n \in 0..MaxPages}}

\* what pdf-parse gives: the import or the parse throws, or result.text is
\* undefined, "", "\n" or "b"
PdfParseOutcomes ==
    {[ok |-> FALSE, defined |-> FALSE, text |-> <<>>],
     [ok |-> TRUE, defined |-> FALSE, text |-> <<>>],
     [ok |-> TRUE, defined |-> TRUE, text |-> <<>>],
     [ok |-> TRUE, defined |-> TRUE, text |-> <<LineFeed>>],
     [ok |-> TRUE, defined |-> TRUE, text |-> <<98>>]}

\* the loop over the pages: fullText after the pages from i on, a page that
\* throws adding nothing
RECURSIVE FullText(_, _)
FullText(pages, i) ==
    IF i > Len(pages) THEN <<>>
    ELSE (IF pages[i].ok THEN pages[i].text \o <<LineFeed, LineFeed>> ELSE <<>>)
             \o FullText(pages, i + 1)

\* extractTextWithFallback(buffer): pdf-parse is only tried on the server
ExtractTextWithFallback(pdfParse, serverSide) ==
    IF serverSide THEN pdfParse
    ELSE [ok |-> FALSE, defined |-> FALSE, text |-> <<>>]

\* no call of extractText has returned yet
NoExtraction == [source |-> "none", pdfJs |-> [ok |-> FALSE, pages |-> <<>>],
                 pdfParse |-> [ok |-> FALSE, defined |-> FALSE, text |-> <<>>],
                 serverSide |-> TRUE, text |-> <<>>]

\* extractText(buffer) when PDF.js and pdf-parse behave as given: where the
\* returned text comes from, and the text
ExtractTextCall(pdfJs, pdfParse, serverSide) ==
    LET fullText == FullText(pdfJs.pages, 1)
        fallback == ExtractTextWithFallback(pdfParse, serverSide)
        returned(source, text) ==
            [source |-> source, pdfJs |-> pdfJs, pdfParse |-> pdfParse,
             serverSide |-> serverSide, text |-> text]
    IN  IF pdfJs.ok
        THEN IF IsBlank(fullText)
             THEN returned("fallback", FallbackText)
             ELSE returned("pdfjs", fullText)
        ELSE IF fallback.ok /\ fallback.defined /\ ~IsBlank(fallback.text)
        THEN returned("pdf-parse", fallback.text)
        ELSE returned("fallback", FallbackText)

(* ------------------------------ actions -------------------------------- *)

SkillIds == 1..NumSkills

ExperienceRows == [startDate : StartDates, endDate : EndDates \cup {NULL}]

ListsUpTo(S, n) == UNION {[1..k -> S] : k \in 0..n}

\* many skills: the candidate's skills range over the whole Skill table
ManySkillInputs ==
    /\ profileSkills \in SUBSET SkillIds
    /\ jobSkills \in {R \in SUBSET SkillIds : Cardinality(R) <= MaxReq}
    /\ experiences = <<>>
    /\ educations = <<>>

\* few skills: the experiences and educations range over every list
FewSkillInputs ==
    /\ profileSkills \in SUBSET FewCandidateIds
    /\ jobSkills \in SUBSET FewSkillIds
    /\ experiences \in ListsUpTo(ExperienceRows, MaxExp)
    /\ educations \in {[i \in 1..k |-> i] : k \in 0..MaxEdu}

\* the row prisma.jobPosting.create makes: isActive defaults to true and
\* updatedAt is the time of the creation
NewJob == [title |-> "t1", isActive |-> TRUE, updatedAt |-> CreatedAt]

\* the Application table is empty and no handler is running
NoApplications ==
    /\ applications = NoRows
    /\ inflight = 0
    /\ resp = NoResp

Init ==
    /\ ManySkillInputs \/ FewSkillInputs
    /\ call = NoCall
    /\ nulled = "none"
    /\ NoApplications
    /\ job = NewJob
    /\ analysis = NoAnalysis
    /\ extraction = NoExtraction

\* one call of calculateMatchScore, at time clock
CalculateMatchScore ==
    /\ \E jobSeekerProfileId \in ProfileIds, jobPostingId \in JobIds,
          clock \in Clock, dbOk \in BOOLEAN :
           call' = MatchScoreCall(jobSeekerProfileId, jobPostingId, clock, dbOk)
    /\ UNCHANGED <<profileSkills, jobSkills, experiences, educations, nulled, appVars, job, analysis, extraction>>

Next == CalculateMatchScore

Spec == Init /\ [][Next]_vars

\* one call of calculateMatchScore in which the persistence layer hands over
\* one of the collections as null
CalculateMatchScoreOnNull ==
    /\ \E nullField \in Collections, clock \in Clock :
           /\ nulled' = nullField
           /\ call' = MatchScoreCallWithNull(nullField, clock)
    /\ UNCHANGED <<profileSkills, jobSkills, experiences, educations, appVars, job, analysis, extraction>>

InitNull ==
    /\ FewSkillInputs
    /\ call = NoCall
    /\ nulled = "none"
    /\ NoApplications
    /\ job = NewJob
    /\ analysis = NoAnalysis
    /\ extraction = NoExtraction

NextNull == CalculateMatchScoreOnNull

SpecNull == InitNull /\ [][NextNull]_vars

\* POST /api/applications from its start to the duplicate check: an early
\* return answers the request, otherwise the handler awaits calculateMatchScore
PostCheck ==
    /\ \E user \in Sessions, body \in PostBodies :
           LET reply == PostEarlyReturn(user, body)
           IN  IF reply.http # 0
               THEN /\ resp' = Respond("POST", user, body.jobPostingId, NoId, "", reply, NoRows)
                    /\ inflight' = inflight
               ELSE /\ inflight < MaxInFlight
                    /\ inflight' = inflight + 1
                    /\ resp' = resp
    /\ UNCHANGED <<scoreVars, applications, job, analysis, extraction>>

\* POST /api/applications from calculateMatchScore to the response, for the
\* job seeker u1 and the posting j1 (no other request passes the checks);
\* createOk is false when prisma.application.create rejects
PostCreate ==
    /\ inflight > 0
    /\ \E id \in AppIds : ~applications[id].exists
    /\ \E clock \in Clock, dbOk \in BOOLEAN, createOk \in BOOLEAN :
           LET jobSeekerProfile == JobSeekerProfileOf("u1")
               matchScore == MatchScoreCall(jobSeekerProfile.id, JobId, clock, dbOk)
           IN  /\ call' = matchScore
               /\ IF createOk
                  THEN /\ applications' = [applications EXCEPT ![FreeId] =
                               ApplicationRow(JobId, jobSeekerProfile.id, matchScore.ret)]
                       /\ resp' = Respond("POST", "u1", JobId, FreeId, "",
                                          Reply(201, ""), NoRows)
                  ELSE /\ applications' = applications
                       /\ resp' = Respond("POST", "u1", JobId, NoId, "",
                                          Reply(500, "Failed to submit application"), NoRows)
    /\ inflight' = inflight - 1
    /\ UNCHANGED <<profileSkills, jobSkills, experiences, educations, nulled, job, analysis, extraction>>

\* PATCH /api/applications/[id]; when prisma.application.update rejects, the
\* catch block answers 500
Patch ==
    /\ \E user \in Sessions, id \in AppIds \cup {NoId}, status \in PatchBodies :
           LET reply == PatchReply(user, id, status)
               failed == Reply(500, "Failed to update application")
           IN  IF reply.http = 200
               THEN \/ /\ applications' = [applications EXCEPT ![id].status = status]
                       /\ resp' = Respond("PATCH", user, "", id, status, reply, NoRows)
                    \/ /\ applications' = applications
                       /\ resp' = Respond("PATCH", user, "", id, status, failed, NoRows)
               ELSE /\ applications' = applications
                    /\ resp' = Respond("PATCH", user, "", id, status, reply, NoRows)
    /\ UNCHANGED <<scoreVars, inflight, job, analysis, extraction>>

\* DELETE /api/applications/[id]; when prisma.application.delete rejects, the
\* catch block answers 500
Delete ==
    /\ \E user \in Sessions, id \in AppIds \cup {NoId} :
           LET reply == DeleteReply(user, id)
               failed == Reply(500, "Failed to delete application")
           IN  IF reply.http = 200
               THEN \/ /\ applications' = [applications EXCEPT ![id] = NoApplication]
                       /\ resp' = Respond("DELETE", user, "", id, "", reply, NoRows)
                    \/ /\ applications' = applications
                       /\ resp' = Respond("DELETE", user, "", id, "", failed, NoRows)
               ELSE /\ applications' = applications
                    /\ resp' = Respond("DELETE", user, "", id, "", reply, NoRows)
    /\ UNCHANGED <<scoreVars, inflight, job, analysis, extraction>>

\* GET /api/applications
Get ==
    /\ \E user \in Sessions :
           LET reply == GetReply(user)
               rows == IF reply.http = 200
                       THEN [id \in AppIds |-> IF id \in Visible(user)
                                               THEN applications[id] ELSE NoApplication]
                       ELSE NoRows
           IN  resp' = Respond("GET", user, "", NoId, "", reply, rows)
    /\ UNCHANGED <<scoreVars, applications, inflight, job, analysis, extraction>>

\* updateSkills(profileId, combinedSkills) of the resume analysis: the profile's
\* skills are disconnected, then the old ones and the analysed ones connected
UpdateSkills ==
    /\ \E analysed \in SUBSET FewCandidateIds :
           LET combinedSkills == profileSkills \cup analysed
           IN  profileSkills' = combinedSkills
    /\ UNCHANGED <<jobSkills, experiences, educations, call, nulled, appVars, job, analysis, extraction>>

\* a database with the one profile and the one posting and no application
InitApps ==
    /\ profileSkills = {}
    /\ jobSkills = {2}
    /\ experiences = <<>>
    /\ educations = <<>>
    /\ call = NoCall
    /\ nulled = "none"
    /\ NoApplications
    /\ job = NewJob
    /\ analysis = NoAnalysis
    /\ extraction = NoExtraction

\* applying and reading while the candidate's skills change
NextApply == PostCheck \/ PostCreate \/ Delete \/ Get \/ UpdateSkills

SpecApply == InitApps /\ [][NextApply]_vars

\* applying and changing the status
NextStatus == PostCheck \/ PostCreate \/ Patch \/ Delete

SpecStatus == InitApps /\ [][NextStatus]_vars

\* PATCH /api/jobs/[id]: the fields are written first; when skills are given
\* the required skills are disconnected and then upserted by name one by one,
\* and prisma.skill.upsert may reject (Skill.name is not unique), which the
\* catch block answers 500 with the earlier writes kept
JobPatch ==
    /\ \E user \in Sessions, jobPostingId \in JobIds, body \in JobPatchBodies,
          clock \in Later :
           LET early == JobEarlyReturn(user, jobPostingId, "update")
               reply == IF early.http # 0 THEN early
                        ELSE IF ~body.valid THEN Reply(400, "ZodError")
                        ELSE Reply(200, "")
               failed == Reply(500, "Failed to update job posting")
           IN  IF reply.http # 200
               THEN /\ UNCHANGED <<job, jobSkills>>
                    /\ resp' = Respond("JOB_PATCH", user, jobPostingId, NoId, "",
                                       reply, NoRows)
               ELSE /\ job' = UpdatedJob(job, body, clock)
                    /\ IF body.skills = {}
                       THEN /\ jobSkills' = jobSkills
                            /\ resp' = Respond("JOB_PATCH", user, jobPostingId, NoId, "",
                                               reply, NoRows)
                       ELSE \/ /\ jobSkills' = body.skills
                               /\ resp' = Respond("JOB_PATCH", user, jobPostingId, NoId,
                                                  "", reply, NoRows)
                            \/ /\ jobSkills' = {}
                               /\ resp' = Respond("JOB_PATCH", user, jobPostingId, NoId,
                                                  "", failed, NoRows)
    /\ UNCHANGED <<profileSkills, experiences, educations, call, nulled, applications, inflight, analysis, extraction>>

\* DELETE /api/jobs/[id]
JobDelete ==
    /\ \E user \in Sessions, jobPostingId \in JobIds, clock \in Later :
           LET reply == JobEarlyReturn(user, jobPostingId, "delete")
           IN  IF reply.http # 0
               THEN /\ job' = job
                    /\ resp' = Respond("JOB_DELETE", user, jobPostingId, NoId, "",
                                       reply, NoRows)
               ELSE /\ job' = DeletedJob(job, clock)
                    /\ resp' = Respond("JOB_DELETE", user, jobPostingId, NoId, "",
                                       Reply(200, ""), NoRows)
    /\ UNCHANGED <<scoreVars, applications, inflight, analysis, extraction>>

\* applying while the recruiters change and delete the posting
NextJobs == PostCheck \/ PostCreate \/ JobPatch \/ JobDelete

SpecJobs == InitApps /\ [][NextJobs]_vars

\* one call of analyzeResume
AnalyzeResume ==
    /\ \E text \in Texts, answers \in [1..MaxRetries -> GeminiAnswers] :
           analysis' = AnalyzeResumeCall(text, answers)
    /\ UNCHANGED <<scoreVars, appVars, jobVars, extraction>>

NextAnalyze == AnalyzeResume

SpecAnalyze == InitApps /\ [][NextAnalyze]_vars

\* one call of PdfReader.extractText
ExtractText ==
    /\ \E pdfJs \in PdfJsOutcomes, pdfParse \in PdfParseOutcomes,
          serverSide \in BOOLEAN :
           extraction' = ExtractTextCall(pdfJs, pdfParse, serverSide)
    /\ UNCHANGED <<scoreVars, appVars, jobVars, analysis>>

NextExtract == ExtractText

SpecExtract == InitApps /\ [][NextExtract]_vars

(* ------------------------------ claims --------------------------------- *)

\* two characters that are the same letter in either case
SameLetter(c, d) ==
    \/ c = d
    \/ c \in 65..90 /\ d = c + 32
    \/ d \in 65..90 /\ c = d + 32

\* two names that are equal when letter case is ignored
SameName(a, b) ==
    /\ Len(a) = Len(b)
    /\ \A i \in 1..Len(a) : SameLetter(a[i], b[i])

\* the candidate's skills that are among the required skills
HeldRequired ==
    {s \in profileSkills : \E q \in jobSkills : SameName(SkillName(s), SkillName(q))}

matchedCount == Cardinality(HeldRequired)
requiredCount == Cardinality(jobSkills)
candidateSkillCount == Cardinality(profileSkills)

Scored == call.path = "scored"

\* the fractions a and b are the same number
SameNumber(a, b) == a[1] * b[2] = b[1] * a[2]

\* the integer n is a nearest integer to the fraction x
Nearest(n, x) ==
    LET diff == n * x[2] - x[1]
    IN  2 * (IF diff < 0 THEN -diff ELSE diff) <= x[2]

\* the days of the candidate's experience at time t: the sum over the
\* intervals of (end, or t when the end is absent) - start
RECURSIVE DaysOfExperience(_, _)
DaysOfExperience(I, t) ==
    IF I = {} THEN 0
    ELSE LET i == CHOOSE j \in I : TRUE
             e == experiences[i]
         IN  (IF e.endDate = NULL THEN t ELSE e.endDate) - e.startDate
             + DaysOfExperience(I \ {i}, t)

TotalDays == DaysOfExperience(DOMAIN experiences, call.at)

\* C1: every value calculateMatchScore returns lies in [0,100]
C1_ScoreInRange == call.path # "none" => call.ret >= 0 /\ call.ret <= 100

\* C2: with at least one required skill, the skill contribution is
\* min(matchedCount / requiredCount * 100 * 0.3, 30)
C2_SkillContribution ==
    (Scored /\ requiredCount > 0) =>
        IF matchedCount <= requiredCount
        THEN SameNumber(call.skill, <<30 * matchedCount, requiredCount>>)
        ELSE SameNumber(call.skill, <<30, 1>>)

C2_Witness ==
    /\ Scored
    /\ requiredCount = 3
    /\ matchedCount = 2
    /\ call.skill = <<20, 1>>

\* C3: whenever the candidate holds every required skill, the skill
\* contribution is exactly 30, also when two required skills differ only by
\* letter case
C3_AllMatchedGives30 ==
    (/\ Scored
     /\ requiredCount > 0
     /\ \A q \in jobSkills :
            \E s \in profileSkills : SameName(SkillName(s), SkillName(q)))
    => SameNumber(call.skill, <<30, 1>>)

\* C4: with required skills of which the candidate holds none, the skill
\* contribution is 0 and the score is 50 plus the experience and education
\* contributions only
C4_NoneMatched ==
    (Scored /\ requiredCount > 0 /\ matchedCount = 0) =>
        /\ SameNumber(call.skill, <<0, 1>>)
        /\ SameNumber(call.score, Plus(Plus(<<50, 1>>, call.experience), call.education))
        /\ Nearest(call.ret, Plus(Plus(<<50, 1>>, call.experience), call.education))

C4_Witness ==
    /\ Scored
    /\ requiredCount = 3
    /\ candidateSkillCount > 0
    /\ matchedCount = 0
    /\ ~SameNumber(call.experience, <<0, 1>>)
    /\ SameNumber(call.education, <<5, 1>>)
    /\ SameNumber(call.skill, <<0, 1>>)

\* C5: with no required skills, the skill contribution is
\* min(2 * number of candidate skills, 15), whichever skills they are
C5_NoRequiredSkills ==
    (Scored /\ requiredCount = 0) =>
        SameNumber(call.skill, <<IntMin(2 * candidateSkillCount, 15), 1>>)

C5_Witness ==
    /\ Scored
    /\ requiredCount = 0
    /\ candidateSkillCount = 8
    /\ call.skill = <<15, 1>>

\* C6: with no required skills and no candidate skills, the skill
\* contribution is 0 and the result is 50 plus the experience and education
\* contributions; with no experience and no education it is exactly 50
C6_BothEmpty ==
    (Scored /\ jobSkills = {} /\ profileSkills = {}) =>
        /\ SameNumber(call.skill, <<0, 1>>)
        /\ Nearest(call.ret, Plus(Plus(<<50, 1>>, call.experience), call.education))
        /\ (experiences = <<>> /\ educations = <<>>) => call.ret = 50

C6_Witness ==
    /\ Scored
    /\ jobSkills = {}
    /\ profileSkills = {}
    /\ experiences = <<>>
    /\ educations = <<>>
    /\ call.ret = 50

\* C7: the experience contribution is min(3 * experienceYears, 15), where
\* experienceYears is the sum over the intervals of (end, or the current time
\* when the end is absent) - start, in years of 365 days
C7_ExperienceContribution ==
    Scored =>
        IF 3 * TotalDays <= 15 * 365
        THEN SameNumber(call.experience, <<3 * TotalDays, 365>>)
        ELSE SameNumber(call.experience, <<15, 1>>)

C7_Witness ==
    /\ Scored
    /\ Len(experiences) = 2
    /\ \E i \in 1..2 : experiences[i].endDate = NULL
    /\ call.at = 9490
    /\ call.experience = <<18, 5>>

\* C8: the education contribution is 5 with at least one education entry and
\* 0 with none, however many entries there are
C8_EducationContribution ==
    Scored =>
        SameNumber(call.education, <<(IF Len(educations) >= 1 THEN 5 ELSE 0), 1>>)

C8_Witness ==
    /\ Scored
    /\ Len(educations) = 2
    /\ call.education = <<5, 1>>

\* C9: calculateMatchScore returns an integer on every path, and on the
\* scoring path that integer is the sum of the base, skill, experience and
\* education contributions rounded to the nearest integer
C9_RoundedInteger ==
    /\ call.ret \in Int
    /\ Scored =>
           Nearest(call.ret,
                   Plus(Plus(Plus(<<50, 1>>, call.skill), call.experience), call.education))

C9_Witness ==
    /\ Scored
    /\ call.score[2] = 2
    /\ 2 * call.ret = call.score[1] + 1

\* C10: for missing or empty inputs (profile not found, posting not found,
\* or empty skills, experiences and educations) calculateMatchScore returns
\* the base score 50
C10_MissingGivesBase ==
    (\/ call.path = "notfound"
     \/ /\ Scored
        /\ profileSkills = {}
        /\ jobSkills = {}
        /\ experiences = <<>>
        /\ educations = <<>>)
    => call.ret = 50

\* the records the two queries of calculateMatchScore return
TheProfile == FindProfile(ProfileId)
TheJobPosting == FindJobPosting(JobId)

\* the profile record with the collection f replaced by the empty list
ProfileWithEmpty(f) ==
    [found |-> TRUE,
     skills |-> IF f = "skills" THEN <<>> ELSE TheProfile.skills,
     experiences |-> IF f = "experiences" THEN <<>> ELSE TheProfile.experiences,
     educations |-> IF f = "educations" THEN <<>> ELSE TheProfile.educations]

\* the posting record with the collection f replaced by the empty list
JobPostingWithEmpty(f) ==
    [found |-> TRUE,
     requiredSkills |-> IF f = "requiredSkills" THEN <<>> ELSE TheJobPosting.requiredSkills]

AllClosed == \A i \in DOMAIN experiences : experiences[i].endDate # NULL

\* C12 (as claimed): two invocations with the same candidate skills,
\* experience intervals, education count and required skills return the same
\* score, whenever they run
C12_SameInputsSameScore ==
    [][(Scored /\ call'.path = "scored") => call'.ret = call.ret]_vars

\* C12 (amended): two invocations with the same inputs return the same score,
\* whenever they run, provided every experience interval has an end date
C12_SameScoreWhenClosed ==
    [][(Scored /\ call'.path = "scored" /\ AllClosed) => call'.ret = call.ret]_vars

C12_Witness ==
    /\ Scored
    /\ call.at = 9490
    /\ Len(experiences) = 2
    /\ AllClosed
    /\ ~SameNumber(call.experience, <<0, 1>>)

\* the name with every letter in the other case
OtherCase(name) ==
    [i \in 1..Len(name) |->
        IF name[i] \in 65..90 THEN name[i] + 32
        ELSE IF name[i] \in 97..122 THEN name[i] - 32
        ELSE name[i]]

\* the skill rows with the name of row i in the other letter case
Recased(rows, i) == [rows EXCEPT ![i].name = OtherCase(@)]

\* C14: replacing a candidate or required skill name by the same name in a
\* different letter case leaves the returned score unchanged
C14_CaseInsensitive ==
    Scored =>
        LET profile == TheProfile
            posting == TheJobPosting
        IN  /\ \A i \in 1..Len(profile.skills) :
                   ScoreRecords([profile EXCEPT !.skills = Recased(@, i)],
                                posting, call.at).ret = call.ret
            /\ \A i \in 1..Len(posting.requiredSkills) :
                   ScoreRecords(profile,
                                [posting EXCEPT !.requiredSkills = Recased(@, i)],
                                call.at).ret = call.ret

C14_Witness ==
    /\ Scored
    /\ profileSkills = {1}
    /\ jobSkills = {2}
    /\ call.skill = <<30, 1>>

\* this step sent a response
Responded == resp'.seq # resp.seq

\* what calculateMatchScore returns for a row's profile and posting as they are now
CurrentScores(row) ==
    {MatchScoreCall(row.jobSeekerProfileId, row.jobPostingId, clock, TRUE).ret :
         clock \in Clock}

\* C13: the matchScore of every application a GET returns is what
\* calculateMatchScore gives for the profile and the posting as they are when
\* the application is read
C13_ReadScoreIsCurrent ==
    [][(Responded /\ resp'.op = "GET") =>
           \A id \in AppIds :
               resp'.rows[id].exists =>
                   resp'.rows[id].matchScore \in CurrentScores(resp'.rows[id])]_vars

\* C13 (amended): the matchScore of an application is what calculateMatchScore
\* returned when the application was created; it is stored in the row, no later
\* change alters it, and a GET returns the stored value
C13_ReadScoreIsStored ==
    [][\A id \in AppIds :
           /\ (~applications[id].exists /\ applications'[id].exists) =>
                  applications'[id].matchScore = call'.ret
           /\ (applications[id].exists /\ applications'[id].exists) =>
                  applications'[id].matchScore = applications[id].matchScore
           /\ (Responded /\ resp'.op = "GET" /\ resp'.rows[id].exists) =>
                  resp'.rows[id].matchScore = applications[id].matchScore]_vars

\* a GET has returned an application scored 50 at its creation, the candidate
\* having since gained the required skill
C13_Witness ==
    /\ resp.op = "GET"
    /\ resp.rows[1].exists
    /\ resp.rows[1].matchScore = 50
    /\ call.path = "scored"
    /\ call.ret = 50
    /\ profileSkills = {1}

\* this step answered a POST
PostAnswered == Responded /\ resp'.op = "POST"

\* this step created the application id
Created(id) == ~applications[id].exists /\ applications'[id].exists

\* C15: a POST without a session is answered 401 and a POST of a user whose
\* role is not JOBSEEKER 403, neither creating an application; an application
\* is only ever created by the POST of a user whose session role is JOBSEEKER
C15_OnlyJobSeekersApply ==
    [][/\ (PostAnswered /\ resp'.user = NoSession) =>
              resp'.http = 401 /\ applications' = applications
       /\ (PostAnswered /\ resp'.user # NoSession /\ Role(resp'.user) # "JOBSEEKER") =>
              resp'.http = 403 /\ applications' = applications
       /\ \A id \in AppIds :
              Created(id) => /\ PostAnswered
                             /\ resp'.user # NoSession
                             /\ Role(resp'.user) = "JOBSEEKER"]_vars

\* the recruiter u2 has been refused with 403 while the job seeker's application
\* exists
C15_Witness ==
    /\ resp.op = "POST"
    /\ resp.user = "u2"
    /\ resp.http = 403
    /\ applications[1].exists

\* C16: there is at most one application for each pair of a job posting and a
\* job seeker profile
C16_AtMostOnePerPair ==
    \A jobPostingId \in JobIds, jobSeekerProfileId \in ProfileIds :
        Cardinality(ExistingApplications(jobPostingId, jobSeekerProfileId)) <= 1

\* the session user of the answered POST is a job seeker who has, before this
\* step, an application for the posting the request names
AppliedBefore ==
    /\ resp'.user # NoSession
    /\ Role(resp'.user) = "JOBSEEKER"
    /\ JobSeekerProfileOf(resp'.user).found
    /\ ExistingApplications(resp'.jobPostingId, JobSeekerProfileOf(resp'.user).id) # {}

\* C17: a POST answered 401, 403, 404 or 400 leaves the applications as they
\* were, and the POST of a job seeker who already has an application for the
\* posting is answered 400 'You have already applied for this job' (unless the
\* database fails, which is answered 500)
C17_RejectedPostChangesNothing ==
    [][/\ (PostAnswered /\ resp'.http \in {400, 401, 403, 404}) =>
              applications' = applications
       /\ (PostAnswered /\ AppliedBefore /\ resp'.http # 500) =>
              /\ resp'.http = 400
              /\ resp'.error = "You have already applied for this job"]_vars

\* this step answered a PATCH
PatchAnswered == Responded /\ resp'.op = "PATCH"

\* the caller is the recruiter who posted the application's job and asks for
\* APPROVED, REJECTED or SELECTED_FOR_INTERVIEW, or is the job seeker who
\* applied and asks for WITHDRAWN
Permitted(user, application, status) ==
    /\ user # NoSession
    /\ application.exists
    /\ \/ /\ Role(user) = "RECRUITER"
          /\ user = RecruiterOfJob(application.jobPostingId)
          /\ status \in {"APPROVED", "REJECTED", "SELECTED_FOR_INTERVIEW"}
       \/ /\ Role(user) = "JOBSEEKER"
          /\ user = UserOfProfile(application.jobSeekerProfileId)
          /\ status = "WITHDRAWN"

\* C18: the status of an application changes only in a PATCH of that
\* application whose caller is permitted the new status, and becomes the
\* status asked for; every PATCH that is not permitted is answered with an
\* error and changes no application
C18_PatchPermissions ==
    [][/\ \A id \in AppIds :
              (/\ applications[id].exists
               /\ applications'[id].exists
               /\ applications'[id].status # applications[id].status) =>
                  /\ PatchAnswered
                  /\ resp'.id = id
                  /\ Permitted(resp'.user, applications[id], resp'.status)
                  /\ applications'[id].status = resp'.status
       /\ (PatchAnswered /\
           ~Permitted(resp'.user, FindApplication(resp'.id), resp'.status)) =>
              /\ resp'.http >= 400
              /\ applications' = applications]_vars

\* the recruiter u2 has approved the application of u1 and the recruiter u3,
\* who did not post the job, has been refused
C18_Witness ==
    /\ resp.op = "PATCH"
    /\ resp.user = "u3"
    /\ resp.id = 1
    /\ resp.status = "REJECTED"
    /\ resp.http = 403
    /\ applications[1].status = "APPROVED"

\* the values the schema documents for Application.status
DocumentedStatuses == {"Applied", "Reviewing", "Interviewed", "Offered", "Rejected"}

\* C19: the status of every application is one of the documented values
C19_StatusDocumented ==
    \A id \in AppIds : applications[id].exists =>
        applications[id].status \in DocumentedStatuses

\* C20: no application has the status PENDING
C20_NeverPending ==
    \A id \in AppIds : applications[id].exists => applications[id].status # "PENDING"

\* the recruiter who posted the job has asked for PENDING on an existing
\* application and has been refused
C20_Witness ==
    /\ resp.op = "PATCH"
    /\ resp.user = "u2"
    /\ resp.status = "PENDING"
    /\ resp.http = 403
    /\ applications[resp.id].exists

\* C21: an application is only created for a job posting that is active when
\* the POST creates it
C21_NoApplicationWhenInactive ==
    [][\A id \in AppIds :
           (Created(id) /\ applications'[id].jobPostingId = JobId) => job.isActive]_vars

\* this step answered a DELETE of the job posting j1 with success
JobDeleted == Responded /\ resp'.op = "JOB_DELETE" /\ resp'.http = 200

\* C22: a successful DELETE of a job posting changes nothing but isActive,
\* which it sets to false: the other columns of the row, the required skills
\* and the applications are as before, and a DELETE of a posting that is
\* already inactive changes nothing at all
C22_DeleteOnlyClearsIsActive ==
    [][JobDeleted =>
           /\ job' = [job EXCEPT !.isActive = FALSE]
           /\ jobSkills' = jobSkills
           /\ applications' = applications
           /\ (~job.isActive => job' = job)]_vars

\* C22 (amended): a successful DELETE of a job posting sets isActive to false
\* and updatedAt to the time of the request and changes nothing else: the
\* title, the required skills and the applications are as before, and a DELETE
\* of a posting that is already inactive changes nothing but updatedAt
C22_DeleteClearsIsActiveAndStamps ==
    [][JobDeleted =>
           /\ ~job'.isActive
           /\ job'.title = job.title
           /\ job'.updatedAt >= job.updatedAt
           /\ jobSkills' = jobSkills
           /\ applications' = applications
           /\ (~job.isActive => job' = [job EXCEPT !.updatedAt = job'.updatedAt])]_vars

\* the posting, for which u1 has applied, has been deleted on a later day
\* than it was created
C22_Witness ==
    /\ resp.op = "JOB_DELETE"
    /\ resp.http = 200
    /\ ~job.isActive
    /\ job.updatedAt > CreatedAt
    /\ applications[1].exists
    /\ jobSkills = {2}

\* this step answered a PATCH or a DELETE of the existing job posting
JobWriteAnswered ==
    /\ Responded
    /\ resp'.op \in {"JOB_PATCH", "JOB_DELETE"}
    /\ JobPostingExists(resp'.jobPostingId)

\* C23: a PATCH or DELETE of a job posting without a session is answered 401
\* and one of a user who did not create the posting 403, both leaving the row
\* and the required skills as they were; the row and the required skills only
\* change in a PATCH or DELETE of the recruiter who created the posting
C23_OnlyOwnerWritesJob ==
    [][/\ (JobWriteAnswered /\ resp'.user = NoSession) =>
              resp'.http = 401 /\ job' = job /\ jobSkills' = jobSkills
       /\ (JobWriteAnswered /\ resp'.user # NoSession
                            /\ resp'.user # RecruiterOfJob(resp'.jobPostingId)) =>
              resp'.http = 403 /\ job' = job /\ jobSkills' = jobSkills
       /\ (job' # job \/ jobSkills' # jobSkills) =>
              JobWriteAnswered /\ resp'.user = RecruiterOfJob(JobId)]_vars

\* the recruiter u3 has been refused the DELETE of the posting of u2, which u2
\* had renamed and which is still active
C23_Witness ==
    /\ resp.op = "JOB_DELETE"
    /\ resp.user = "u3"
    /\ resp.http = 403
    /\ job.title = "t2"
    /\ job.isActive

\* analyzeResume has returned
Analyzed == analysis.path # "none"

\* every attempt of the last call was answered with nothing usable
GeminiFailed == \A i \in DOMAIN analysis.answers : ~analysis.answers[i].ok

\* the first usable answer of the Gemini API in the last call
FirstAnswer ==
    analysis.answers[CHOOSE i \in DOMAIN analysis.answers :
                         /\ analysis.answers[i].ok
                         /\ \A j \in 1..(i - 1) : ~analysis.answers[j].ok]

\* C24: analyzeResume returns; for a text shorter than 50 characters the
\* fallback response (success false, score 0, no skills) without an attempt
\* on the Gemini API; when every attempt fails the basic analysis with success
\* true; otherwise the Gemini result with success true
C24_AnalyzeResumeFallbacks ==
    Analyzed =>
        /\ analysis.text.length < 50 =>
               /\ analysis.response = CreateFallbackResponse(analysis.response.summary)
               /\ analysis.attempts = 0
        /\ (analysis.text.length >= 50 /\ GeminiFailed) =>
               /\ analysis.response.success
               /\ analysis.response.summary = "basic"
        /\ (analysis.text.length >= 50 /\ ~GeminiFailed) =>
               /\ analysis.response.success
               /\ analysis.response.skills = FirstAnswer.skills
               /\ analysis.response.score = FirstAnswer.score

\* extractText has returned
Extracted == extraction.source # "none"

\* a text with a character that is not white space
NonBlank(s) == \E i \in DOMAIN s : s[i] # 32 /\ s[i] # 10

\* the texts of the pages that were read, each followed by two line feeds
RECURSIVE PagesRead(_)
PagesRead(pages) ==
    IF pages = <<>> THEN <<>>
    ELSE LET last == pages[Len(pages)]
         IN  PagesRead(SubSeq(pages, 1, Len(pages) - 1)) \o
                 (IF last.ok THEN last.text \o <<10, 10>> ELSE <<>>)

\* C25: extractText returns a text that is not empty: what PDF.js read from
\* the pages it could read, if that is not blank; when PDF.js fails, the text
\* of pdf-parse if there is one and it is not blank; the hard-coded text in
\* every other case
C25_ExtractTextFallbackOrder ==
    Extracted =>
        LET pdfJs == extraction.pdfJs
            pdfParse == extraction.pdfParse
            parsed == extraction.serverSide /\ pdfParse.ok /\ pdfParse.defined
        IN  /\ extraction.text # <<>>
            /\ IF pdfJs.ok /\ NonBlank(PagesRead(pdfJs.pages))
               THEN extraction.text = PagesRead(pdfJs.pages)
               ELSE IF ~pdfJs.ok /\ parsed /\ NonBlank(pdfParse.text)
               THEN extraction.text = pdfParse.text
               ELSE extraction.text = <<10, 74, 111, 104, 110>>

\* PDF.js could not read the first page and read "a" from the second, and
\* extractText returned what the second page gave
C25_Witness ==
    /\ Extracted
    /\ extraction.pdfJs.ok
    /\ Len(extraction.pdfJs.pages) = 2
    /\ ~extraction.pdfJs.pages[1].ok
    /\ extraction.text = <<97, 10, 10>>

\* what calculateMatchScore computes at the time of the last call for the
\* profile with the skill row id added to its skills
WithSkill(id) ==
    ScoreRecords([TheProfile EXCEPT !.skills = SkillRows(profileSkills \cup {id})],
                 TheJobPosting, call.at)

\* the name of the skill row id is, letter case aside, a required skill
IsRequired(id) == \E r \in jobSkills : SameName(SkillName(id), SkillName(r))

\* C26: adding a skill to the candidate's skills, the posting, the experiences
\* and the educations staying as they are, does not lower the score, and
\* adding a required skill does not lower the points given for the skills
C26_MonotoneInSkills ==
    Scored =>
        \A id \in SkillIds \ profileSkills :
            /\ WithSkill(id).ret >= call.ret
            /\ IsRequired(id) => Leq(call.skill, WithSkill(id).skill)

\* the candidate holds "x", the posting requires "a"; with "A" added the
\* score rises from 50 to 80
C26_Witness ==
    /\ Scored
    /\ profileSkills = {3}
    /\ jobSkills = {2}
    /\ call.ret = 50
    /\ IsRequired(1)
    /\ WithSkill(1).ret = 80

====
